---- MODULE Spec2Model ----
(***************************************************************************)
(* Model of src/api.py: the retrying API layer of the Sunsync add-on.      *)
(*                                                                         *)
(* One logical thread runs one operation at a time (get_auth_token,        *)
(* validate_token, api_call under its callers, sunsynk_api_call,           *)
(* ha_api_call, send_inverter_settings).  curl is the environment: every   *)
(* transport attempt picks its outcome from a small set of exit statuses   *)
(* and response bodies.  log_message (the logging collaborator, defined    *)
(* outside api.py) and the verbose print blocks change no state and are    *)
(* left out.  Response files persist between operations.                   *)
(*                                                                         *)
(* get_bearer_token of src/tests/test_api.py, a separate script, is        *)
(* modelled over the same variables under its own specification,           *)
(* ScriptSpec, at the end of the module.                                   *)
(***************************************************************************)
EXTENDS Integers, Sequences, FiniteSets, TLC

\* ------------------------------------------------------------------ constants
DEFAULT_MAX_RETRIES == 3

NoResult == 0 - 1         \* the operation has not returned a status yet
UNBOUND == "UNBOUND"      \* a local name that has not been assigned yet
MISSING == "MISSING"      \* a key that is not present in a JSON object
BOOL_TRUE == "BOOL_TRUE"  \* the JSON boolean true (distinct from the string "true")

\* ------------------------------------------------------- response bodies
\* The content of a response file.  kind: absent (no file), empty (size 0),
\* garbage (not JSON), nonobj (JSON whose top level is not an object),
\* obj (a JSON object with the fields below).
Content(k, s, d, t, m) ==
    [kind |-> k, success |-> s, data |-> d, access_token |-> t, msg |-> m]

Absent == Content("absent", MISSING, MISSING, "", MISSING)
EmptyBody == Content("empty", MISSING, MISSING, "", MISSING)
Garbage == Content("garbage", MISSING, MISSING, "", MISSING)
NonObject == Content("nonobj", MISSING, MISSING, "", MISSING)
Obj(s, d, t, m) == Content("obj", s, d, t, m)

TokenGranted == Obj("true", "obj", "abc", MISSING)
TokenGrantedBool == Obj(BOOL_TRUE, "obj", "abc", MISSING)
TokenBlank == Obj("true", "obj", "", MISSING)
TokenNoData == Obj("true", MISSING, "", MISSING)
TokenDataNull == Obj("true", "null", "", MISSING)
Rejected == Obj("false", MISSING, "", "bad creds")
RejectedNoMsg == Obj(MISSING, MISSING, "", MISSING)
SettingsOk == Obj("true", MISSING, "", MISSING)
SettingsOkBool == Obj(BOOL_TRUE, MISSING, "", MISSING)
Telemetry == Obj("true", "obj", "", MISSING)

TOKEN_URL == "https://api.sunsynk.net/oauth/token"
SETTINGS_URL == "https://api.sunsynk.net/api/v1/common/setting/INV1/set"
HA_URL == "http://ha:8123/api/states"

\* What the server behind a URL may answer with on a transport success.
Responses(url) ==
    IF url = TOKEN_URL
    THEN {EmptyBody, Garbage, NonObject, TokenGranted, TokenGrantedBool,
          TokenBlank, TokenNoData, TokenDataNull, Rejected, RejectedNoMsg}
    ELSE IF url = SETTINGS_URL
    THEN {EmptyBody, Garbage, NonObject, SettingsOk, SettingsOkBool,
          Rejected, RejectedNoMsg}
    ELSE {EmptyBody, Garbage, Telemetry}

\* One curl run: exit status 0 with a body written to the sink, or a
\* non-zero exit status that leaves the sink as it was.
TransportOutcomes(url) ==
    {[ok |-> TRUE, body |-> b] : b \in Responses(url)}
        \cup {[ok |-> FALSE, body |-> Absent]}

TOKEN_FILE == "token.json"
SETTINGS_FILE == "inverter_settings_response.json"
DEV_NULL == "/dev/null"
FileNames == {TOKEN_FILE, SETTINGS_FILE, "out.json"}

\* ------------------------------------------------------------------ state
VARIABLES
    SERVER_API_BEARER_TOKEN,          \* module global, api.py line 12
    SERVER_API_BEARER_TOKEN_SUCCESS,  \* module global, api.py line 13
    SERVER_API_BEARER_TOKEN_MSG,      \* module global, api.py line 14
    files,        \* content of every response file
    op,           \* the operation that is running, "none" when idle
    args,         \* the arguments the running operation was called with
    pc,           \* idle | loop | api_call | api_done | returned | raised
    retry_count,  \* retry_count of get_auth_token / send_inverter_settings
    gat,          \* get_auth_token's own bindings of the three Token names
    ac,           \* the frame of the running api_call
    result,       \* status returned by the operation (NoResult until then)
    outcomes,     \* history: transport outcomes of the current api_call run
    attempts,     \* history: one record per finished outer-loop iteration
    received,     \* history: the transport outcome every such iteration ended
                  \* with, Mixed once two of them differ
    requests,     \* history: number of requests sent by the running operation
    lastReq,      \* history: the request sent last
    sleeps,       \* history: time.sleep calls made by the outer loop
    acquired      \* history: the token of the latest get_auth_token call
                  \* that returned 0 ("" while there has been none)

vars == <<SERVER_API_BEARER_TOKEN, SERVER_API_BEARER_TOKEN_SUCCESS,
          SERVER_API_BEARER_TOKEN_MSG, files, op, args, pc, retry_count, gat,
          ac, result, outcomes, attempts, received, requests, lastReq,
          sleeps, acquired>>

globals == <<SERVER_API_BEARER_TOKEN, SERVER_API_BEARER_TOKEN_SUCCESS,
             SERVER_API_BEARER_TOKEN_MSG>>

\* ---------------------------------------------------------------- helpers
\* Python truthiness of an integer status: `if api_call(...)`.
Truthy(status) == status # 0

\* os.path.exists(output_file)
FileExists(c) == c.kind # "absent"

\* os.stat(output_file).st_size == 0
FileIsEmpty(c) == c.kind = "empty"

\* json.load(f) returns a value (does not raise) for this content.
JsonLoads(c) == c.kind \in {"nonobj", "obj"}

\* response_data.get(...) works only on a dict; data.get(...) likewise.
GetRaises(c) == c.kind = "nonobj"
DataGetRaises(c) == c.kind = "nonobj" \/ c.data = "null"

\* response_data.get("data", {}).get("access_token", "")
GetAccessToken(c) == IF c.data = "obj" THEN c.access_token ELSE ""

\* response_data.get("success", "false")
GetSuccess(c) == IF c.success = MISSING THEN "false" ELSE c.success

\* response_data.get("msg", "Unknown error")
GetMsg(c) == IF c.msg = MISSING THEN "Unknown error" ELSE c.msg

\* headers are (name, value) pairs; "-d <body>" travels as a header too
ContentTypeJson == [name |-> "Content-Type", value |-> "application/json"]
Bearer(token) == [name |-> "authorization", value |-> token]
HaBearer(token) == [name |-> "Authorization", value |-> token]
DataArg(d) == [name |-> "-d", value |-> d]

\* header.startswith("-d ")
IsDataArg(h) == h.name = "-d"

NoArgs == [endpoint |-> "", output_file |-> "", method |-> "", data |-> "",
           inverter_sn |-> "", settings_data |-> "", HA_TOKEN |-> ""]
NoRequest == [method |-> "", url |-> "", headers |-> <<>>, data |-> ""]
NoFrame == [method |-> "", url |-> "", output_file |-> "", headers |-> <<>>,
            data |-> "", retry_count |-> 0, result |-> NoResult, sleeps |-> 0]
Mixed ==
    [ok |-> FALSE, body |-> Content("mixed", MISSING, MISSING, "", MISSING)]
NoToken == [TOKEN |-> UNBOUND, SUCCESS |-> UNBOUND, MSG |-> UNBOUND]

\* ------------------------------------------------------------------- Init
Init ==
    /\ SERVER_API_BEARER_TOKEN = ""
    /\ SERVER_API_BEARER_TOKEN_SUCCESS = ""
    /\ SERVER_API_BEARER_TOKEN_MSG = ""
    /\ files = [f \in FileNames |-> Absent]
    /\ op = "none"
    /\ args = NoArgs
    /\ pc = "idle"
    /\ retry_count = 0
    /\ gat = NoToken
    /\ ac = NoFrame
    /\ result = NoResult
    /\ outcomes = <<>>
    /\ attempts = <<>>
    /\ received = Mixed
    /\ requests = 0
    /\ lastReq = NoRequest
    /\ sleeps = 0
    /\ acquired = ""

\* --------------------------------------------------------------- api_call
\* Lines 197-209: the request body is taken from the "-d " argument only
\* for a POST that carries the JSON content type.
FirstDataArg(headers) ==
    IF \E i \in 1..Len(headers) : IsDataArg(headers[i])
    THEN LET i == CHOOSE i \in 1..Len(headers) :
                     /\ IsDataArg(headers[i])
                     /\ \A j \in 1..(i - 1) : ~IsDataArg(headers[j])
         IN headers[i].value
    ELSE ""

ExtractData(method, headers) ==
    IF method = "POST" /\ \E i \in 1..Len(headers) : headers[i] = ContentTypeJson
    THEN FirstDataArg(headers)
    ELSE ""

\* Lines 213-227: the curl command of one attempt.
NotDataArg(h) == ~IsDataArg(h)

CurlCommand(frame) ==
    [method |-> frame.method, url |-> frame.url,
     headers |-> SelectSeq(frame.headers, NotDataArg), data |-> frame.data]

\* Mutant: the loop test lets one more attempt through.
ApiCallLoopGuard_OneMore(rc) == rc <= DEFAULT_MAX_RETRIES

\* Line 211: while retry_count < DEFAULT_MAX_RETRIES
ApiCallLoopGuard(rc) == rc < DEFAULT_MAX_RETRIES

\* Mutant: an empty response is never retried.
ApiCallRetryEmpty_Never(rc) == FALSE

\* Line 243: after an empty response, retry only while budget is left
ApiCallRetryEmpty(rc) == rc < DEFAULT_MAX_RETRIES

\* Line 260: after a failed attempt, sleep only while budget is left
ApiCallSleepAfterFailure(rc) == rc < DEFAULT_MAX_RETRIES

\* Lines 234-236: output_file != "/dev/null" and its size is 0
IsEmptyResponse(output_file, fs) ==
    output_file # DEV_NULL /\ FileIsEmpty(fs[output_file])

\* The frame api_call starts with (lines 191-209).
ApiCallFrame(method, url, output_file, headers) ==
    [method |-> method, url |-> url, output_file |-> output_file,
     headers |-> headers, data |-> ExtractData(method, headers),
     retry_count |-> 0, result |-> NoResult, sleeps |-> 0]

\* curl writes the body to the sink when it exits with status 0.
WriteSink(fs, output_file, o) ==
    IF o.ok /\ output_file \in FileNames
    THEN [fs EXCEPT ![output_file] = o.body]
    ELSE fs

\* What one loop iteration (lines 211-268) does to the frame, given the
\* outcome o of the curl run and the files fs after it.
ApiCallIteration(frame, fs, o) ==
    IF o.ok
    THEN IF IsEmptyResponse(frame.output_file, fs)
         THEN LET rc == frame.retry_count + 1 IN
              IF ApiCallRetryEmpty(rc)
              THEN [frame EXCEPT !.retry_count = rc, !.sleeps = @ + 1]
              ELSE [frame EXCEPT !.retry_count = rc, !.result = 0]
         ELSE [frame EXCEPT !.result = 0]
    ELSE LET rc == frame.retry_count + 1
             slept == IF ApiCallSleepAfterFailure(rc) THEN 1 ELSE 0 IN
         IF ApiCallLoopGuard(rc)
         THEN [frame EXCEPT !.retry_count = rc, !.sleeps = @ + slept]
         ELSE [frame EXCEPT !.retry_count = rc, !.sleeps = @ + slept,
                            !.result = 1]

\* One transport attempt of the running api_call.
api_call ==
    /\ pc = "api_call"
    /\ ApiCallLoopGuard(ac.retry_count)
    /\ \E o \in TransportOutcomes(ac.url) :
         LET fs == WriteSink(files, ac.output_file, o)
             frame == ApiCallIteration(ac, fs, o) IN
         /\ files' = fs
         /\ ac' = frame
         /\ outcomes' = Append(outcomes, o)
         /\ requests' = requests + 1
         /\ lastReq' = CurlCommand(ac)
         /\ pc' = IF frame.result = NoResult THEN "api_call" ELSE "api_done"
    /\ UNCHANGED <<globals, acquired, op, args, retry_count, gat, result, attempts,
                   received, sleeps>>

\* One finished iteration of an outer retry loop: the status api_call
\* returned and how the iteration ended.
Attempt(how) == [status |-> ac.result, how |-> how]

\* The outcome of the last transport attempt of the api_call run that just
\* ended, folded into what the earlier iterations ended with.
LastOutcome == outcomes[Len(outcomes)]

Received ==
    IF attempts = <<>> \/ received = LastOutcome THEN LastOutcome ELSE Mixed

\* --------------------------------------------------------- get_auth_token
CREDENTIALS == "{areaCode,client_id,grant_type,password,source,username}"

\* Lines 22-29.
Call_get_auth_token ==
    /\ pc = "idle"
    /\ op' = "get_auth_token"
    /\ args' = NoArgs
    /\ pc' = "loop"
    /\ retry_count' = 0
    /\ gat' = NoToken
    /\ UNCHANGED <<globals, acquired, files, ac, result, outcomes, attempts, received, requests,
                   lastReq, sleeps>>

\* Mutant: the loop test always lets the next attempt through.
TokenLoopGuard_Always(rc) == TRUE

\* Line 31: while retry_count < DEFAULT_MAX_RETRIES
TokenLoopGuard(rc) == rc < DEFAULT_MAX_RETRIES

\* Line 33: `if api_call(...)` takes the parsing branch when the returned
\* status is truthy.
TokenTakesParseBranch(status) == Truthy(status)

\* Line 111: SERVER_API_BEARER_TOKEN_SUCCESS == "true" and SERVER_API_BEARER_TOKEN
TokenAccepted(success, token) == success = "true" /\ token # ""

\* Lines 31-40 and 144-149: the loop test, then either the POST through
\* api_call or the exit with status 1.
get_auth_token_loop ==
    /\ op = "get_auth_token"
    /\ pc = "loop"
    /\ IF TokenLoopGuard(retry_count)
       THEN /\ ac' = ApiCallFrame("POST", TOKEN_URL, TOKEN_FILE,
                                  <<ContentTypeJson, DataArg(CREDENTIALS)>>)
            /\ outcomes' = <<>>
            /\ pc' = "api_call"
            /\ UNCHANGED result
       ELSE /\ result' = 1
            /\ pc' = "returned"
            /\ UNCHANGED <<ac, outcomes>>
    /\ UNCHANGED <<globals, acquired, files, op, args, retry_count, gat, attempts, received,
                   requests, lastReq, sleeps>>

\* Lines 40-142: what get_auth_token does with the status of api_call.
\* The three SERVER_API_BEARER_TOKEN* names are assigned in the function
\* without a global declaration, so the assignments bind the function's
\* own names (gat) and the module globals keep their values.
get_auth_token_handle ==
    /\ op = "get_auth_token"
    /\ pc = "api_done"
    /\ LET f == files[TOKEN_FILE]
           retry == /\ retry_count' = retry_count + 1
                    /\ sleeps' = sleeps + 1
                    /\ pc' = "loop"
                    /\ UNCHANGED <<result, acquired>> IN
       IF TokenTakesParseBranch(ac.result)
       THEN IF ~FileExists(f)
            THEN /\ retry
                 /\ attempts' = Append(attempts, Attempt("no_file"))
                 /\ UNCHANGED gat
            ELSE IF ~JsonLoads(f)
            THEN /\ retry
                 /\ attempts' = Append(attempts, Attempt("parse_error"))
                 /\ UNCHANGED gat
            ELSE IF DataGetRaises(f)
            THEN /\ pc' = "raised"
                 /\ attempts' = Append(attempts, Attempt("raised"))
                 /\ UNCHANGED <<gat, retry_count, sleeps, result, acquired>>
            ELSE IF TokenAccepted(GetSuccess(f), GetAccessToken(f))
            THEN /\ gat' = [gat EXCEPT !.TOKEN = GetAccessToken(f),
                                       !.SUCCESS = GetSuccess(f)]
                 /\ result' = 0
                 /\ pc' = "returned"
                 /\ attempts' = Append(attempts, Attempt("accepted"))
                 /\ acquired' = GetAccessToken(f)
                 /\ UNCHANGED <<retry_count, sleeps>>
            ELSE /\ gat' = [TOKEN |-> GetAccessToken(f),
                            SUCCESS |-> GetSuccess(f), MSG |-> GetMsg(f)]
                 /\ retry
                 /\ attempts' = Append(attempts, Attempt("rejected"))
       ELSE /\ retry
            /\ attempts' = Append(attempts, Attempt("error"))
            /\ UNCHANGED gat
    /\ received' = Received
    /\ UNCHANGED <<globals, files, op, args, ac, outcomes, requests, lastReq>>

\* --------------------------------------------------------- validate_token
\* Mutant: the emptiness test is inverted.
NoBearerToken_Inverted(token) == token # ""

\* Mutant: the token is never found missing.
NoBearerToken_Never(token) == FALSE

\* Line 156: if not SERVER_API_BEARER_TOKEN
NoBearerToken(token) == token = ""

\* Lines 155-187.
validate_token ==
    /\ pc = "idle"
    /\ op' = "validate_token"
    /\ args' = NoArgs
    /\ result' = IF NoBearerToken(SERVER_API_BEARER_TOKEN) THEN 1 ELSE 0
    /\ pc' = "returned"
    /\ UNCHANGED <<globals, acquired, files, retry_count, gat, ac, outcomes, attempts, received,
                   requests, lastReq, sleeps>>

\* The operation is over: the caller has its status (or the exception).
Return ==
    /\ pc \in {"returned", "raised"}
    /\ op' = "none"
    /\ args' = NoArgs
    /\ pc' = "idle"
    /\ retry_count' = 0
    /\ gat' = NoToken
    /\ ac' = NoFrame
    /\ result' = NoResult
    /\ outcomes' = <<>>
    /\ attempts' = <<>>
    /\ received' = Mixed
    /\ requests' = 0
    /\ lastReq' = NoRequest
    /\ sleeps' = 0
    /\ UNCHANGED <<globals, acquired, files>>

\* ------------------------------------------------------- sunsynk_api_call
\* Line 282: if not endpoint or not output_file
SunsynkParamsMissing(endpoint, output_file) == endpoint = "" \/ output_file = ""

\* Lines 277-302.  The function reads the module global token.
sunsynk_api_call ==
    /\ pc = "idle"
    /\ \E endpoint \in {"", "inverters"}, output_file \in {"", "out.json"} :
         /\ op' = "sunsynk_api_call"
         /\ args' = [NoArgs EXCEPT !.endpoint = endpoint,
                                   !.output_file = output_file]
         /\ IF SunsynkParamsMissing(endpoint, output_file)
               \/ NoBearerToken(SERVER_API_BEARER_TOKEN)
            THEN /\ result' = 1
                 /\ pc' = "returned"
                 /\ UNCHANGED ac
            ELSE /\ ac' = ApiCallFrame("GET", endpoint, output_file,
                             <<ContentTypeJson, Bearer(SERVER_API_BEARER_TOKEN)>>)
                 /\ pc' = "api_call"
                 /\ UNCHANGED result
    /\ UNCHANGED <<globals, acquired, files, retry_count, gat, outcomes, attempts, received,
                   requests, lastReq, sleeps>>

\* ------------------------------------------------------------ ha_api_call
\* Line 313: if not endpoint
HaParamsMissing(endpoint) == endpoint = ""

\* Mutant: a missing HA_TOKEN goes unnoticed.
HaTokenMissing_Never(token) == FALSE

\* Line 320: if not os.getenv("HA_TOKEN")
HaTokenMissing(token) == token = ""

\* Lines 331-339: the headers handed to api_call.
HaHeaders(token, data) ==
    IF data # ""
    THEN <<HaBearer(token), ContentTypeJson, DataArg(data)>>
    ELSE <<HaBearer(token), ContentTypeJson>>

\* Lines 306-346.  HA_TOKEN is read from the environment at call time.
ha_api_call ==
    /\ pc = "idle"
    /\ \E endpoint \in {"", "/api/states"}, method \in {"GET", "POST", "PUT"},
          data \in {"", "{state}"}, output_file \in {DEV_NULL, "out.json"},
          token \in {"", "hatoken"} :
         /\ op' = "ha_api_call"
         /\ args' = [NoArgs EXCEPT !.endpoint = endpoint, !.method = method,
                                   !.data = data, !.output_file = output_file,
                                   !.HA_TOKEN = token]
         /\ IF HaParamsMissing(endpoint) \/ HaTokenMissing(token)
            THEN /\ result' = 1
                 /\ pc' = "returned"
                 /\ UNCHANGED ac
            ELSE /\ ac' = ApiCallFrame(method, HA_URL, output_file,
                                       HaHeaders(token, data))
                 /\ pc' = "api_call"
                 /\ UNCHANGED result
    /\ UNCHANGED <<globals, acquired, files, retry_count, gat, outcomes, attempts, received,
                   requests, lastReq, sleeps>>

\* Lines 296 and 341: `return api_call(...)`.
return_api_call ==
    /\ op \in {"sunsynk_api_call", "ha_api_call"}
    /\ pc = "api_done"
    /\ result' = ac.result
    /\ pc' = "returned"
    /\ UNCHANGED <<globals, acquired, files, op, args, retry_count, gat, ac, outcomes,
                   attempts, received, requests, lastReq, sleeps>>

\* ------------------------------------------------- send_inverter_settings
\* Mutant: every payload passes the JSON check.
IsWellFormedJson_Any(text) == TRUE

\* json.loads(settings_data) succeeds (lines 365-374), for the payloads
\* the model calls the function with.
IsWellFormedJson(text) == text \in {"{workMode:1}"}

\* Line 357: if not inverter_sn or not settings_data
SettingsParamsMissing(inverter_sn, settings_data) ==
    inverter_sn = "" \/ settings_data = ""

\* Line 395: while retry_count < DEFAULT_MAX_RETRIES
SettingsLoopGuard(rc) == rc < DEFAULT_MAX_RETRIES

\* Mutant: the retry test gives up one attempt early.
SettingsRetry_OneLess(rc) == rc < DEFAULT_MAX_RETRIES - 1

\* Lines 416, 463, 494, 510: if retry_count < DEFAULT_MAX_RETRIES
SettingsRetry(rc) == rc < DEFAULT_MAX_RETRIES

\* Line 478: if success == "true"
SettingsAccepted(success) == success = "true"

\* Lines 350-393.
Call_send_inverter_settings ==
    /\ pc = "idle"
    /\ \E inverter_sn \in {"", "INV1"},
          settings_data \in {"", "not json", "{workMode:1}"} :
         /\ op' = "send_inverter_settings"
         /\ args' = [NoArgs EXCEPT !.inverter_sn = inverter_sn,
                                   !.settings_data = settings_data]
         /\ IF SettingsParamsMissing(inverter_sn, settings_data)
               \/ ~IsWellFormedJson(settings_data)
            THEN /\ result' = 1
                 /\ pc' = "returned"
            ELSE /\ pc' = "loop"
                 /\ UNCHANGED result
    /\ retry_count' = 0
    /\ UNCHANGED <<globals, acquired, files, gat, ac, outcomes, attempts, received, requests,
                   lastReq, sleeps>>

\* Lines 395-404 and 521-525.
send_inverter_settings_loop ==
    /\ op = "send_inverter_settings"
    /\ pc = "loop"
    /\ IF SettingsLoopGuard(retry_count)
       THEN /\ ac' = ApiCallFrame("POST", SETTINGS_URL, SETTINGS_FILE,
                         <<ContentTypeJson, Bearer(SERVER_API_BEARER_TOKEN),
                           DataArg(args.settings_data)>>)
            /\ outcomes' = <<>>
            /\ pc' = "api_call"
            /\ UNCHANGED result
       ELSE /\ result' = 1
            /\ pc' = "returned"
            /\ UNCHANGED <<ac, outcomes>>
    /\ UNCHANGED <<globals, acquired, files, op, args, retry_count, gat, attempts, received,
                   requests, lastReq, sleeps>>

\* Lines 406-519: what send_inverter_settings does with api_call's status.
send_inverter_settings_handle ==
    /\ op = "send_inverter_settings"
    /\ pc = "api_done"
    /\ LET f == files[SETTINGS_FILE]
           rc == retry_count + 1
           \* retry_count += 1; sleep and continue while budget is left,
           \* otherwise return 1
           retry == /\ retry_count' = rc
                    /\ IF SettingsRetry(rc)
                       THEN /\ sleeps' = sleeps + 1
                            /\ pc' = "loop"
                            /\ UNCHANGED result
                       ELSE /\ result' = 1
                            /\ pc' = "returned"
                            /\ UNCHANGED sleeps IN
       IF ac.result = 0
       THEN IF ~FileExists(f)
            THEN /\ retry
                 /\ attempts' = Append(attempts, Attempt("no_file"))
            ELSE IF ~JsonLoads(f)
            THEN /\ retry
                 /\ attempts' = Append(attempts, Attempt("parse_error"))
            ELSE IF GetRaises(f)
            THEN /\ pc' = "raised"
                 /\ attempts' = Append(attempts, Attempt("raised"))
                 /\ UNCHANGED <<retry_count, sleeps, result>>
            ELSE IF SettingsAccepted(GetSuccess(f))
            THEN /\ result' = 0
                 /\ pc' = "returned"
                 /\ attempts' = Append(attempts, Attempt("accepted"))
                 /\ UNCHANGED <<retry_count, sleeps>>
            ELSE /\ retry
                 /\ attempts' = Append(attempts, Attempt("rejected"))
       ELSE /\ retry
            /\ attempts' = Append(attempts, Attempt("error"))
    /\ received' = Received
    /\ UNCHANGED <<globals, acquired, files, op, args, gat, ac, outcomes, requests,
                   lastReq>>

Next ==
    \/ Call_get_auth_token
    \/ get_auth_token_loop
    \/ get_auth_token_handle
    \/ validate_token
    \/ sunsynk_api_call
    \/ ha_api_call
    \/ return_api_call
    \/ Call_send_inverter_settings
    \/ send_inverter_settings_loop
    \/ send_inverter_settings_handle
    \/ api_call
    \/ Return

Spec == Init /\ [][Next]_vars

\* ================================================================= claims
Granted == [ok |-> TRUE, body |-> TokenGranted]
BadCreds == [ok |-> TRUE, body |-> Rejected]

ApiCallReturned == ac.result # NoResult

IsFailure(o) == ~o.ok
IsEmptySuccess(o) == o.ok /\ o.body.kind = "empty"
IsBodySuccess(o) == o.ok /\ o.body.kind # "empty"

\* C1: when the first token request is answered with success "true" and the
\* access token "abc", get_auth_token returns 0 after that one attempt and
\* the module-level token is "abc" and flagged valid.
C1_FirstGrantReturnsToken ==
    (/\ op = "get_auth_token"
     /\ Len(attempts) = 1
     /\ requests = 1
     /\ received = Granted)
        => /\ pc = "returned"
           /\ result = 0
           /\ SERVER_API_BEARER_TOKEN = "abc"
           /\ SERVER_API_BEARER_TOKEN_SUCCESS = "true"

\* C2: an api_call run whose transport attempts all fail makes exactly
\* DEFAULT_MAX_RETRIES attempts and returns 1.
C2_AllFailedExactlyN ==
    (outcomes # <<>> /\ \A i \in 1..Len(outcomes) : IsFailure(outcomes[i]))
        => IF ApiCallReturned
           THEN Len(outcomes) = DEFAULT_MAX_RETRIES /\ ac.result = 1
           ELSE Len(outcomes) < DEFAULT_MAX_RETRIES

C2_Witness ==
    /\ ApiCallReturned
    /\ ac.result = 1
    /\ Len(outcomes) = DEFAULT_MAX_RETRIES
    /\ \A i \in 1..Len(outcomes) : IsFailure(outcomes[i])

\* C3: with a sink other than /dev/null, api_call returns 0 only when its
\* last attempt succeeded with a non-empty body, and returns 1 when all
\* DEFAULT_MAX_RETRIES attempts produced an empty body.
C3_EmptyBodyIsFailure ==
    (ApiCallReturned /\ ac.output_file # DEV_NULL)
        => /\ ac.result = 0 => IsBodySuccess(LastOutcome)
           /\ (\A i \in 1..Len(outcomes) : IsEmptySuccess(outcomes[i]))
                 => ac.result = 1

\* C4 as stated: whatever the sink, api_call keeps going through failed and
\* empty-body attempts, stops at the first attempt k that brings a non-empty
\* body, and then returns 0 after exactly k attempts.
C4_StopsAtFirstBody ==
    outcomes # <<>>
        => /\ \A i \in 1..(Len(outcomes) - 1) : ~IsBodySuccess(outcomes[i])
           /\ (ApiCallReturned /\ IsBodySuccess(LastOutcome)) => ac.result = 0
           /\ (ApiCallReturned /\ Len(outcomes) < DEFAULT_MAX_RETRIES)
                 => IsBodySuccess(LastOutcome)
           /\ (~ApiCallReturned) => ~IsBodySuccess(LastOutcome)

\* C4 amended: the same for a sink that is not /dev/null.
C4_StopsAtFirstBodyOnFile ==
    ac.output_file # DEV_NULL => C4_StopsAtFirstBody

C4_Witness ==
    /\ ApiCallReturned
    /\ ac.result = 0
    /\ ac.output_file # DEV_NULL
    /\ Len(outcomes) = DEFAULT_MAX_RETRIES
    /\ IsEmptySuccess(outcomes[1])
    /\ IsEmptySuccess(outcomes[2])
    /\ IsBodySuccess(outcomes[3])

\* C5: sunsynk_api_call with an empty endpoint, an empty output_file or an
\* empty module-level token returns 1 at once, sends no request and changes
\* neither the Token nor any file.
C5_FetchFailsFast ==
    [][(/\ pc = "idle"
        /\ op' = "sunsynk_api_call"
        /\ \/ args'.endpoint = ""
           \/ args'.output_file = ""
           \/ SERVER_API_BEARER_TOKEN = "")
         => /\ pc' = "returned"
            /\ result' = 1
            /\ requests' = 0
            /\ lastReq' = NoRequest
            /\ UNCHANGED <<globals, files>>]_vars

C5_Witness ==
    /\ op = "sunsynk_api_call"
    /\ args.endpoint = "inverters"
    /\ args.output_file = "out.json"
    /\ SERVER_API_BEARER_TOKEN = ""
    /\ pc = "returned"
    /\ result = 1
    /\ requests = 0

\* C6: every request that carries the cloud API's authorization header
\* carries a non-empty bearer token.
C6_NoEmptyBearer ==
    \A i \in 1..Len(lastReq.headers) :
        lastReq.headers[i].name = "authorization"
            => lastReq.headers[i].value # ""

\* C7: when every attempt of get_auth_token is answered with success
\* "false" and msg "bad creds", the call returns 1 after exactly
\* DEFAULT_MAX_RETRIES attempts, and then the Token is not valid and its
\* message is "bad creds".
C7_RejectedLeavesMessage ==
    (op = "get_auth_token" /\ attempts # <<>> /\ received = BadCreds)
        => /\ pc # "raised"
           /\ pc = "returned"
                => /\ result = 1
                   /\ Len(attempts) = DEFAULT_MAX_RETRIES
                   /\ SERVER_API_BEARER_TOKEN_SUCCESS # "true"
                   /\ SERVER_API_BEARER_TOKEN_MSG = "bad creds"

\* C8: whenever the validity flag is "true" the token value is non-empty,
\* for the module-level Token and for the values get_auth_token holds under
\* the same names between its attempts.
C8_ValidImpliesValue ==
    /\ SERVER_API_BEARER_TOKEN_SUCCESS = "true" => SERVER_API_BEARER_TOKEN # ""
    /\ gat.SUCCESS = "true" => gat.TOKEN \notin {"", UNBOUND}

\* C9: an attempt of get_auth_token that fails leaves value, flag and
\* message as they were; an attempt that succeeds replaces all three, so no
\* earlier error message is left beside the new token.
C9_TokenUpdatedWholesale ==
    [][(op = "get_auth_token" /\ pc = "api_done")
         => IF pc' = "returned" /\ result' = 0
            THEN /\ gat'.TOKEN \notin {"", UNBOUND}
                 /\ gat'.SUCCESS = "true"
                 /\ gat'.MSG \notin {"bad creds", "Unknown error"}
            ELSE UNCHANGED <<gat, globals>>]_vars

\* C10: send_inverter_settings with an empty serial number, an empty
\* payload or a payload that is not JSON returns 1 at once: no request, no
\* sleep, Token and files untouched.
C10_PushRejectsBadInput ==
    [][(/\ pc = "idle"
        /\ op' = "send_inverter_settings"
        /\ \/ args'.inverter_sn = ""
           \/ args'.settings_data \in {"", "not json"})
         => /\ pc' = "returned"
            /\ result' = 1
            /\ requests' = 0
            /\ sleeps' = 0
            /\ lastReq' = NoRequest
            /\ ac' = NoFrame
            /\ UNCHANGED <<globals, files>>]_vars

C10_Witness ==
    /\ op = "send_inverter_settings"
    /\ args.inverter_sn = "INV1"
    /\ args.settings_data = "not json"
    /\ pc = "returned"
    /\ result = 1
    /\ requests = 0
    /\ sleeps = 0

BusinessRejected(i) == attempts[i].status = 0 /\ attempts[i].how = "rejected"
BusinessAccepted(i) == attempts[i].status = 0 /\ attempts[i].how = "accepted"

\* C11: in send_inverter_settings, after attempts 1..k-1 that each brought a
\* business failure, an attempt k (k <= DEFAULT_MAX_RETRIES) answered with
\* success "true" ends the call with status 0 after exactly k attempts; the
\* call does not stop before it and sends nothing after it.
C11_PushSucceedsAtFirstTrue ==
    (/\ op = "send_inverter_settings"
     /\ attempts # <<>>
     /\ pc \in {"loop", "returned", "raised"}
     /\ \A i \in 1..(Len(attempts) - 1) : BusinessRejected(i))
        => /\ Len(attempts) <= DEFAULT_MAX_RETRIES
           /\ LastOutcome = [ok |-> TRUE, body |-> SettingsOk]
                => /\ pc = "returned"
                   /\ result = 0
                   /\ BusinessAccepted(Len(attempts))
           /\ (BusinessRejected(Len(attempts))
                 /\ Len(attempts) < DEFAULT_MAX_RETRIES)
                => pc = "loop"

C11_Witness ==
    /\ op = "send_inverter_settings"
    /\ pc = "returned"
    /\ result = 0
    /\ Len(attempts) = 2
    /\ BusinessRejected(1)
    /\ BusinessAccepted(2)
    /\ requests = 2

ValidPushArgs == args.inverter_sn # "" /\ args.settings_data = "{workMode:1}"

\* The success field of a decoded body is truthy: the string "true" or the
\* JSON boolean true.
TruthySuccess(c) == c.kind = "obj" /\ c.success \in {"true", BOOL_TRUE}

\* C12: with valid arguments send_inverter_settings returns 1 only when
\* DEFAULT_MAX_RETRIES attempts have been made and none of them brought a
\* truthy business success.
C12_FailureOnlyAfterFullBudget ==
    (op = "send_inverter_settings" /\ ValidPushArgs
       /\ pc = "returned" /\ result = 1)
        => /\ Len(attempts) = DEFAULT_MAX_RETRIES
           /\ \A i \in 1..Len(attempts) : ~BusinessAccepted(i)
           /\ ~(received.ok /\ TruthySuccess(received.body))

\* C13: a decoded success field counts as truthy for the JSON boolean true
\* as for the string "true", in both functions: a settings response with
\* success = true ends send_inverter_settings with status 0 at that attempt,
\* and a token response with success = true and a non-empty access_token is
\* never rejected by get_auth_token.
C13_BooleanSuccessIsTruthy ==
    /\ (/\ op = "send_inverter_settings"
        /\ attempts # <<>>
        /\ pc \in {"loop", "returned", "raised"}
        /\ LastOutcome = [ok |-> TRUE, body |-> SettingsOkBool])
           => /\ pc = "returned"
              /\ result = 0
    /\ (/\ op = "get_auth_token"
        /\ attempts # <<>>
        /\ pc \in {"loop", "returned", "raised"}
        /\ attempts[Len(attempts)].how \in {"rejected", "accepted"}
        /\ files[TOKEN_FILE] = TokenGrantedBool)
           => /\ pc = "returned"
              /\ result = 0

C15_NoUnhandledFault ==
    /\ op \in {"get_auth_token", "send_inverter_settings"} => pc # "raised"
    /\ (op \in {"get_auth_token", "send_inverter_settings"} /\ pc = "returned")
          => result \in {0, 1}

HaArgsBad == args.endpoint = "" \/ args.HA_TOKEN = ""

\* C16: ha_api_call with an empty endpoint or without HA_TOKEN returns 1
\* with no request made; otherwise it runs api_call once, every request of
\* that run is sent to the Home Assistant URL with the caller's method and
\* the header "Authorization: Bearer <HA_TOKEN>", the status it returns is
\* api_call's, and the response body is never decoded.
C16_HaCallDelegates ==
    op = "ha_api_call" =>
        /\ pc # "raised"
        /\ attempts = <<>>
        /\ HaArgsBad => /\ pc = "returned"
                        /\ result = 1
                        /\ requests = 0
        /\ ~HaArgsBad =>
              /\ pc \in {"api_call", "api_done", "returned"}
              /\ requests = Len(outcomes)
              /\ requests <= DEFAULT_MAX_RETRIES
              /\ requests > 0 =>
                    /\ lastReq.url = HA_URL
                    /\ lastReq.method = args.method
                    /\ \E i \in DOMAIN lastReq.headers :
                          lastReq.headers[i] = HaBearer(args.HA_TOKEN)
              /\ pc = "returned" => /\ result = ac.result
                                    /\ result \in {0, 1}
                                    /\ requests > 0

C16_Witness ==
    /\ op = "ha_api_call"
    /\ pc = "returned"
    /\ result = 0
    /\ requests = 2
    /\ args.HA_TOKEN = "hatoken"
    /\ lastReq.method = "PUT"
    /\ LastOutcome = [ok |-> TRUE, body |-> Garbage]

\* C17: one call of get_auth_token or send_inverter_settings issues at most
\* DEFAULT_MAX_RETRIES HTTP requests in total, whatever the transport does.
C17_AtMostNRequests ==
    op \in {"get_auth_token", "send_inverter_settings"}
        => requests <= DEFAULT_MAX_RETRIES

WaitsOnlyBetweenAttempts(o) ==
    (op = o /\ attempts # <<>>) =>
        /\ pc = "loop" => sleeps = Len(attempts)
        /\ pc \in {"returned", "raised"} => sleeps = Len(attempts) - 1

ApiCallWaitsOnlyBetweenAttempts ==
    /\ (pc = "api_call" /\ ac.result = NoResult) => ac.sleeps = Len(outcomes)
    /\ pc = "api_done" => ac.sleeps = Len(outcomes) - 1

\* C18: in api_call, get_auth_token and send_inverter_settings a backoff wait
\* happens only between two attempts: an attempt that is followed by another
\* one is followed by exactly one wait, and the attempt the operation ends
\* with is followed by none.
C18_WaitsOnlyBetweenAttempts ==
    /\ ApiCallWaitsOnlyBetweenAttempts
    /\ WaitsOnlyBetweenAttempts("send_inverter_settings")
    /\ WaitsOnlyBetweenAttempts("get_auth_token")

\* C19: once a get_auth_token call has returned 0 with token T, a following
\* validate_token returns 0, and a following sunsynk_api_call with non-empty
\* arguments sends a GET whose authorization header is "Bearer T": the token
\* the consumers read is the one the latest successful acquisition produced.
C19_ConsumersSeeAcquiredToken ==
    acquired # "" =>
        /\ (op = "validate_token" /\ pc = "returned") => result = 0
        /\ (op = "sunsynk_api_call" /\ ~SunsynkParamsMissing(args.endpoint,
                                                             args.output_file))
              => /\ pc = "returned" => requests > 0
                 /\ requests > 0 =>
                       /\ lastReq.method = "GET"
                       /\ \E i \in DOMAIN lastReq.headers :
                             lastReq.headers[i] = Bearer(acquired)

Running == pc \notin {"idle", "returned", "raised"}

\* What is left of the budget of the running operation: the outer attempts
\* still allowed, then the position inside the current one.
Remaining ==
    IF ~Running THEN 0
    ELSE (DEFAULT_MAX_RETRIES - retry_count) * (DEFAULT_MAX_RETRIES + 3)
         + 1
         + (CASE pc = "loop"     -> DEFAULT_MAX_RETRIES + 2
              [] pc = "api_call" -> 1 + (DEFAULT_MAX_RETRIES - ac.retry_count)
              [] OTHER           -> 0)

\* A running operation always has a next step to take.
CanStep ==
    Running =>
        \/ pc = "loop" /\ op \in {"get_auth_token", "send_inverter_settings"}
        \/ pc = "api_call" /\ ApiCallLoopGuard(ac.retry_count)
        \/ pc = "api_done" /\ op \in {"get_auth_token", "send_inverter_settings",
                                      "sunsynk_api_call", "ha_api_call"}

\* C20: every call terminates, whatever the transport answers: an iteration
\* of api_call's loop or of the outer loop that does not end the operation
\* increases its attempt counter by one, the counters never pass
\* DEFAULT_MAX_RETRIES, a running operation can always take a step and every
\* step brings it strictly closer to its end, so it ends after at most
\* DEFAULT_MAX_RETRIES outer iterations.
C20_EveryCallTerminates ==
    [][/\ CanStep'
       /\ retry_count' \in 0..DEFAULT_MAX_RETRIES
       /\ ac'.retry_count \in 0..DEFAULT_MAX_RETRIES
       /\ Len(attempts') <= DEFAULT_MAX_RETRIES
       /\ Len(outcomes') <= DEFAULT_MAX_RETRIES
       /\ Running =>
             /\ Remaining' < Remaining
             /\ Remaining' >= 0
             /\ (pc = "api_call" /\ pc' = "api_call")
                   => ac'.retry_count = ac.retry_count + 1
             /\ (pc = "api_done" /\ pc' = "loop")
                   => /\ retry_count' = retry_count + 1
                      /\ Len(attempts') = Len(attempts) + 1]_vars

C20_Witness ==
    /\ op = "get_auth_token"
    /\ pc = "returned"
    /\ result = 1
    /\ Len(attempts) = DEFAULT_MAX_RETRIES
    /\ requests = DEFAULT_MAX_RETRIES * DEFAULT_MAX_RETRIES

\* C21: whenever ha_api_call is given a non-empty body, every request it
\* sends carries that body, whatever the method argument is.
C21_HaBodyReachesTransport ==
    (op = "ha_api_call" /\ args.data # "" /\ requests > 0)
        => lastReq.data = args.data

\* ============================= src/tests/test_api.py: get_bearer_token
\* The exploration script fetches a token with the requests library: one
\* process, its own retry loop, no response file.  The library is the
\* environment; it answers every POST with one of the outcomes below.
max_retries == 3

None == "None"            \* the Python value None

TokenBlankBool == Obj(BOOL_TRUE, "obj", "", MISSING)
TokenDataNullBool == Obj(BOOL_TRUE, "null", "", MISSING)

ScriptResponses ==
    {Garbage, NonObject, TokenGrantedBool, TokenGranted, TokenBlankBool,
     TokenDataNullBool, SettingsOkBool, Rejected, RejectedNoMsg}

\* requests.post followed by raise_for_status: a response with a body, or
\* a RequestException (connection error, HTTP error status).
ScriptOutcomes ==
    {[ok |-> TRUE, body |-> b] : b \in ScriptResponses}
        \cup {[ok |-> FALSE, body |-> Absent]}

\* CONFIG_FILE as the script finds it.
Configs == {"not_found", "yaml_error", "no_credentials", "ok"}

\* data.get('success') == True
SuccessIsTrue(c) == c.success = BOOL_TRUE

\* 'data' in data
HasData(c) == c.data # MISSING

ScriptLoopGuard(rc) == rc < max_retries

\* Mutant: the script waits after every failed attempt.
ScriptSleeps_Always(rc) == TRUE

\* if retry_count < max_retries: time.sleep(30)
ScriptSleeps(rc) == rc < max_retries

\* How one iteration of the loop ends for a given outcome.  A body that is
\* not JSON makes response.json() raise a decode error, which is a
\* RequestException in some releases of the library and a plain ValueError
\* in others: caught tells which.
ScriptAttempt(o, caught) ==
    IF ~o.ok THEN "exception"
    ELSE IF ~JsonLoads(o.body) THEN (IF caught THEN "exception" ELSE "raised")
    ELSE IF GetRaises(o.body) THEN "raised"
    ELSE IF SuccessIsTrue(o.body) /\ HasData(o.body)
         THEN IF o.body.data # "obj" THEN "raised"
              ELSE IF o.body.access_token # "" THEN "accepted"
              ELSE "rejected"
    ELSE "rejected"

Call_get_bearer_token ==
    /\ pc = "idle"
    /\ \E config \in Configs :
         /\ op' = "get_bearer_token"
         /\ args' = [config |-> config]
         /\ IF config = "ok"
            THEN /\ pc' = "loop"
                 /\ UNCHANGED result
            ELSE /\ result' = None
                 /\ pc' = "returned"
    /\ UNCHANGED <<globals, acquired, files, retry_count, gat, ac, outcomes,
                   attempts, received, requests, lastReq, sleeps>>

get_bearer_token_attempt ==
    /\ op = "get_bearer_token"
    /\ pc = "loop"
    /\ ScriptLoopGuard(retry_count)
    /\ \E o \in ScriptOutcomes, caught \in BOOLEAN :
         LET how == ScriptAttempt(o, caught)
             rc == retry_count + 1 IN
         /\ requests' = requests + 1
         /\ lastReq' = [method |-> "POST", url |-> TOKEN_URL,
                        headers |-> <<ContentTypeJson>>, data |-> CREDENTIALS]
         /\ outcomes' = Append(outcomes, o)
         /\ attempts' = Append(attempts,
                               [status |-> IF o.ok THEN 0 ELSE 1, how |-> how])
         /\ IF how = "accepted"
            THEN /\ result' = o.body.access_token
                 /\ pc' = "returned"
                 /\ UNCHANGED <<retry_count, sleeps>>
            ELSE IF how = "raised"
            THEN /\ pc' = "raised"
                 /\ UNCHANGED <<retry_count, sleeps, result>>
            ELSE /\ retry_count' = rc
                 /\ sleeps' = IF ScriptSleeps(rc) THEN sleeps + 1 ELSE sleeps
                 /\ pc' = "loop"
                 /\ UNCHANGED result
    /\ UNCHANGED <<globals, acquired, files, op, args, gat, ac, received>>

get_bearer_token_exhausted ==
    /\ op = "get_bearer_token"
    /\ pc = "loop"
    /\ ~ScriptLoopGuard(retry_count)
    /\ result' = None
    /\ pc' = "returned"
    /\ UNCHANGED <<globals, acquired, files, op, args, retry_count, gat, ac,
                   outcomes, attempts, received, requests, lastReq, sleeps>>

ScriptNext ==
    \/ Call_get_bearer_token
    \/ get_bearer_token_attempt
    \/ get_bearer_token_exhausted
    \/ Return

ScriptSpec == Init /\ [][ScriptNext]_vars

\* The response the claim calls a good one: success == True, a data object
\* and a non-empty access_token.
Acceptable(o) ==
    /\ o.ok
    /\ o.body.kind = "obj"
    /\ o.body.success = BOOL_TRUE
    /\ o.body.data = "obj"
    /\ o.body.access_token # ""

\* The attempt ended in a request exception or with a rejected response.
FailedAttempt(i) == attempts[i].how \in {"exception", "rejected"}

\* C22: get_bearer_token sends at most 3 token requests, one per attempt.
\* The first attempt answered with an acceptable response returns its token
\* and no request follows.  When every attempt ended in a request exception
\* or a rejected response, the call returns None after exactly 3 requests,
\* having slept after each attempt except the last.
C22_ScriptTokenRetry ==
    (op = "get_bearer_token" /\ args.config = "ok") =>
        /\ requests = Len(attempts)
        /\ requests = Len(outcomes)
        /\ requests <= max_retries
        /\ \A i \in 1..Len(outcomes) :
              Acceptable(outcomes[i])
                 => /\ i = Len(outcomes)
                    /\ pc = "returned"
                    /\ result = outcomes[i].body.access_token
        /\ (\A i \in 1..Len(attempts) : FailedAttempt(i))
              => /\ pc \in {"loop", "returned"}
                 /\ pc = "returned" => /\ result = None
                                       /\ requests = max_retries
                                       /\ sleeps = max_retries - 1
                 /\ pc = "loop" => sleeps = (IF requests < max_retries
                                             THEN requests
                                             ELSE max_retries - 1)
        /\ (pc = "returned" /\ result = None)
              => \A i \in 1..Len(attempts) : FailedAttempt(i)

C22_Witness ==
    /\ op = "get_bearer_token"
    /\ pc = "returned"
    /\ result = "abc"
    /\ requests = 3
    /\ sleeps = 2
    /\ outcomes[1] = [ok |-> FALSE, body |-> Absent]
    /\ outcomes[2] = [ok |-> TRUE, body |-> TokenGranted]
    /\ outcomes[3] = [ok |-> TRUE, body |-> TokenGrantedBool]

====
